---- MODULE Spec2Model ----
(***************************************************************************)
(* A model of myvcs (src/code.py): a content-addressed object store, a     *)
(* commit graph, branch pointers, HEAD and a staging index, all kept as    *)
(* files under .myvcs.  Every command runs in a process of its own: it     *)
(* builds a Repository (which reads HEAD), runs one method and exits, so   *)
(* the state between two commands is exactly the content of the files.     *)
(* An uncaught Python exception ends the process; what was written before  *)
(* it stays on disk.                                                       *)
(***************************************************************************)
EXTENDS Integers, Sequences, FiniteSets, TLC

VARIABLES
    steps,     \* how many commands and edits have been run
    wt,        \* working tree: path -> content, or NoFile
    index,     \* .myvcs/index: path -> blob hash (absent file reads as {})
    objects,   \* .myvcs/objects: blob hash -> content
    commits,   \* .myvcs/commits: commit hash -> commit record
    branches,  \* .myvcs/branches: branch name -> commit hash
    head,      \* content of .myvcs/HEAD, stripped
    last,      \* the last command run and how it ended
    out        \* what the last command listed, in order: the commits of log,
               \* the modified paths of status

vars == <<steps, wt, index, objects, commits, branches, head, last, out>>

\* The repository files, without the working tree.
repo == <<index, objects, commits, branches, head>>

----------------------------------------------------------------------------
(* Bounds and input domains *)

MaxSteps == 9       \* the commands and edits of a run, at most

Paths == {"f", "g"}
PathSeq == <<"f", "g">>           \* Paths in sorted order
Contents == {"hello", "world"}
NoFile == "<absent>"
Messages == {"first"}
Timestamps == {"2024-01-01T00:00:00Z"}   \* what utcnow().isoformat() + "Z" gives
None == "<None>"                  \* Python's None
UserNames == {"master", "dev", "nosuch"}

\* The empty mapping ({} in Python).
Empty == <<>>

----------------------------------------------------------------------------
(* Utility functions *)

\* SHA-1 of a file's bytes, taken as injective.
file_sha1(content) == "b:" \o content

RECURSIVE dumps_files(_, _)
\* json.dumps of the files mapping with sort_keys=True: the keys in sorted order.
dumps_files(files, i) ==
    IF i > Len(PathSeq) THEN ""
    ELSE (IF PathSeq[i] \in DOMAIN files
            THEN PathSeq[i] \o "=" \o files[PathSeq[i]] \o ";"
            ELSE "")
         \o dumps_files(files, i + 1)

\* json.dumps(commit, sort_keys=True): keys files, message, parent, timestamp.
dumps(commit) ==
    "{" \o dumps_files(commit.files, 1) \o "," \o commit.message \o ","
        \o commit.parent \o "," \o commit.timestamp \o "}"

\* SHA-1 of the serialized commit, taken as injective.
commit_sha1(commit) == "c:" \o dumps(commit)

----------------------------------------------------------------------------
(* Repository *)

\* load_head: HEAD's content, or "master" when there is no HEAD file (init
\* always writes one, so the file is there).
load_head == head

\* os.path.exists(os.path.join(branches_path, name)): with the empty name the
\* path is the branches directory itself, which exists.
branch_file_exists(name) == name = "" \/ name \in DOMAIN branches

\* open(branch_file) succeeds on a file; on the directory it raises
\* IsADirectoryError.
branch_file_readable(name) == name \in DOMAIN branches

\* get_current_commit, where it returns: the current branch's commit or None.
get_current_commit ==
    IF load_head \in DOMAIN branches THEN branches[load_head] ELSE None

\* get_current_commit raises (HEAD is empty, so the branch file is a directory).
get_current_commit_raises ==
    branch_file_exists(load_head) /\ ~branch_file_readable(load_head)

\* One more command (a process run from main) or edit, within the bound.
Tick == steps < MaxSteps /\ steps' = steps + 1

Init ==
    /\ steps = 0
    /\ wt = [p \in Paths |-> NoFile]
    /\ index = Empty
    /\ objects = Empty
    /\ commits = Empty
    /\ branches = Empty
    /\ head = "master"
    /\ last = [op |-> "init", target |-> "", result |-> "ok"]
    /\ out = <<>>

\* The user writes, rewrites or deletes a working-tree file between commands.
Edit(p, c) ==
    /\ wt[p] # c
    /\ Tick
    /\ wt' = [wt EXCEPT ![p] = c]
    /\ last' = [op |-> "edit", target |-> "", result |-> "ok"]
    /\ out' = <<>>
    /\ UNCHANGED repo

RECURSIVE argv(_, _)
\* The arguments of a command as typed, from the i-th on, space-separated.
argv(args, i) ==
    IF i > Len(args) THEN ""
    ELSE args[i] \o (IF i < Len(args) THEN " " ELSE "") \o argv(args, i + 1)

RECURSIVE add_loop_stop_at_missing(_, _, _)
\* An add() that gives up at the first path that does not exist.
add_loop_stop_at_missing(files, i, st) ==
    IF i > Len(files) \/ wt[files[i]] = NoFile THEN st
    ELSE add_loop_stop_at_missing(files, i + 1,
           [index |-> (files[i] :> file_sha1(wt[files[i]])) @@ st.index,
            objects |-> (file_sha1(wt[files[i]]) :> wt[files[i]])
                          @@ st.objects])

RECURSIVE add_loop_object_per_path(_, _, _)
\* An add() that names the object after the path and copies it every time.
add_loop_object_per_path(files, i, st) ==
    IF i > Len(files) THEN st
    ELSE IF wt[files[i]] = NoFile
      THEN add_loop_object_per_path(files, i + 1, st)
      ELSE add_loop_object_per_path(files, i + 1,
             [index |-> (files[i] :> file_sha1(wt[files[i]])) @@ st.index,
              objects |-> (("b:" \o files[i]) :> wt[files[i]]) @@ st.objects])

RECURSIVE add_loop(_, _, _)
\* The loop of add over the given paths, in input order: a path that does not
\* exist is skipped; an existing one is hashed, staged, and its content copied
\* into the object store unless an object of that hash is already there.
add_loop(files, i, st) ==
    IF i > Len(files) THEN st
    ELSE LET file == files[i]
             sha == file_sha1(wt[file])
         IN IF wt[file] = NoFile
              THEN add_loop(files, i + 1, st)
              ELSE add_loop(files, i + 1,
                     [index |-> (file :> sha) @@ st.index,
                      objects |-> IF sha \in DOMAIN st.objects
                                    THEN st.objects
                                    ELSE (sha :> wt[file]) @@ st.objects])

\* Repository.add(files); write_index runs whether or not anything was staged.
Add(files) ==
    LET st == add_loop(files, 1, [index |-> index, objects |-> objects])
    IN /\ index' = st.index
       /\ objects' = st.objects
       /\ last' = [op |-> "add", target |-> argv(files, 1), result |-> "ok"]
       /\ out' = <<>>
       /\ Tick
       /\ UNCHANGED <<wt, commits, branches, head>>

\* A commit() without its emptiness test.
nothing_to_commit_never(idx) == FALSE

\* "if not index": the staging area is empty.
nothing_to_commit(idx) == DOMAIN idx = {}

\* A commit() whose record is a full snapshot: the parent's files with the
\* staged ones over them.
new_commit_cumulative(message, timestamp) ==
    [message |-> message, timestamp |-> timestamp,
     files |-> IF get_current_commit \in DOMAIN commits
                 THEN index @@ commits[get_current_commit].files
                 ELSE index,
     parent |-> get_current_commit]

\* The commit record built by commit().
new_commit(message, timestamp) ==
    [message |-> message, timestamp |-> timestamp, files |-> index,
     parent |-> get_current_commit]

\* An update_branch that writes the hash into every branch file.
update_branch_all(commit_hash) ==
    (load_head :> commit_hash) @@ [b \in DOMAIN branches |-> commit_hash]

\* update_branch: (over)writes the branch file named by HEAD.
update_branch(commit_hash) == (load_head :> commit_hash) @@ branches

\* A commit() that moves the branch before it writes the commit file.
commit_steps_branch_first(message, timestamp) ==
    LET commit == new_commit(message, timestamp)
        commit_hash == commit_sha1(commit)
        s1 == [commits |-> commits, branches |-> update_branch(commit_hash),
               index |-> index]
        s2 == [s1 EXCEPT !.commits = (commit_hash :> commit) @@ commits]
        s3 == [s2 EXCEPT !.index = Empty]
    IN <<s1, s2, s3>>

\* The three writes of commit() in their order, as the files stand after
\* each: the commit file, the branch file, the emptied index.
commit_steps(message, timestamp) ==
    LET commit == new_commit(message, timestamp)
        commit_hash == commit_sha1(commit)
        s1 == [commits |-> (commit_hash :> commit) @@ commits,
               branches |-> branches, index |-> index]
        s2 == [s1 EXCEPT !.branches = update_branch(commit_hash)]
        s3 == [s2 EXCEPT !.index = Empty]
    IN <<s1, s2, s3>>

\* Repository.commit(message); timestamp is what the clock returns.
Commit(message, timestamp) ==
    /\ Tick
    /\ out' = <<>>
    /\ IF nothing_to_commit(index)
         THEN /\ last' = [op |-> "commit", target |-> "", result |-> "nothing"]
              /\ UNCHANGED <<wt, repo>>
         ELSE IF get_current_commit_raises
         THEN /\ last' = [op |-> "commit", target |-> "",
                          result |-> "IsADirectoryError"]
              /\ UNCHANGED <<wt, repo>>
         ELSE LET commit_hash == commit_sha1(new_commit(message, timestamp))
                  written == commit_steps(message, timestamp)
              IN /\ commits' = written[Len(written)].commits
                 /\ branches' = written[Len(written)].branches
                 /\ index' = written[Len(written)].index
                 /\ last' = [op |-> "commit", target |-> commit_hash,
                             result |-> "committed"]
                 /\ UNCHANGED <<wt, objects, head>>

RECURSIVE walk(_, _)
\* The loop of log: from commit_hash along the parent links, until None or a
\* hash with no commit file. fuel stops the evaluation on a cycle, where the
\* loop itself would not end.
walk(commit_hash, fuel) ==
    IF commit_hash = None \/ commit_hash \notin DOMAIN commits \/ fuel = 0
      THEN <<>>
      ELSE <<commit_hash>> \o walk(commits[commit_hash].parent, fuel - 1)

\* A log() that prints the current commit and does not follow its parent.
log_from_head_only(commit_hash) ==
    IF commit_hash \in DOMAIN commits THEN <<commit_hash>> ELSE <<>>

\* A log() that prints a hash before it looks for its commit file, and so
\* also prints the hash whose file is missing.
log_from_prints_missing(commit_hash) ==
    LET w == walk(commit_hash, Cardinality(DOMAIN commits) + 1)
    IN IF w = <<>> THEN <<commit_hash>>
       ELSE IF commits[w[Len(w)]].parent = None THEN w
       ELSE w \o <<commits[w[Len(w)]].parent>>

\* What log prints when started at commit_hash.
log_from(commit_hash) == walk(commit_hash, Cardinality(DOMAIN commits) + 1)

\* Repository.log()
Log ==
    /\ Tick
    /\ UNCHANGED <<wt, repo>>
    /\ IF get_current_commit_raises
         THEN /\ last' = [op |-> "log", target |-> "",
                          result |-> "IsADirectoryError"]
              /\ out' = <<>>
         ELSE IF get_current_commit = None
         THEN /\ last' = [op |-> "log", target |-> "", result |-> "nocommits"]
              /\ out' = <<>>
         ELSE /\ last' = [op |-> "log", target |-> "", result |-> "printed"]
              /\ out' = log_from(get_current_commit)

\* The orders in which os.listdir may give the paths of set S.
listings(S) ==
    {s \in UNION {[1..n -> S] : n \in {Cardinality(S)}} :
        \A i, j \in DOMAIN s : i # j => s[i] # s[j]}

\* The paths status reports as modified against last_files: the regular files
\* of the working directory whose hash is not the one last_files records.
status_modified(last_files) ==
    {f \in Paths : /\ wt[f] # NoFile
                   /\ \/ f \notin DOMAIN last_files
                      \/ file_sha1(wt[f]) # last_files[f]}

\* Repository.status(): the staged paths are printed first, then the current
\* commit is read (which may raise) and the modified files are listed.
Status ==
    /\ Tick
    /\ UNCHANGED <<wt, repo>>
    /\ IF get_current_commit_raises
         THEN /\ last' = [op |-> "status", target |-> "",
                          result |-> "IsADirectoryError"]
              /\ out' = <<>>
         ELSE IF get_current_commit # None
                 /\ get_current_commit \notin DOMAIN commits
         THEN /\ last' = [op |-> "status", target |-> "",
                          result |-> "FileNotFoundError"]
              /\ out' = <<>>
         ELSE LET last_files == IF get_current_commit = None THEN Empty
                                ELSE commits[get_current_commit].files
              IN /\ last' = [op |-> "status", target |-> "",
                             result |-> IF status_modified(last_files) = {}
                                          THEN "nochanges" ELSE "modified"]
                 /\ out' \in listings(status_modified(last_files))

\* A checkout that makes the working tree the commit's snapshot: it also
\* deletes the files whose path the commit does not record.
restore_clean(files, i, w) ==
    [wt |-> [p \in Paths |->
               IF p \notin DOMAIN files THEN NoFile
               ELSE IF files[p] \in DOMAIN objects THEN objects[files[p]]
               ELSE w[p]],
     ok |-> \A p \in DOMAIN files : files[p] \in DOMAIN objects]

RECURSIVE restore(_, _, _)
\* The copy loop of checkout over files.items() (sorted paths, as stored):
\* each path is overwritten with its object; a missing object raises and
\* leaves the files copied so far.
restore(files, i, w) ==
    IF i > Len(PathSeq) THEN [wt |-> w, ok |-> TRUE]
    ELSE LET filename == PathSeq[i]
         IN IF filename \notin DOMAIN files
              THEN restore(files, i + 1, w)
              ELSE IF files[filename] \notin DOMAIN objects
              THEN [wt |-> w, ok |-> FALSE]
              ELSE restore(files, i + 1,
                           [w EXCEPT ![filename] = objects[files[filename]]])

\* A checkout() that takes any target that is no branch for a commit hash,
\* without looking for its commit file.
resolve_without_commit_check(target) ==
    IF branch_file_exists(target) THEN "branch" ELSE "commit"

\* A checkout() that looks for the commit file before the branch file.
resolve_commit_first(target) ==
    IF target \in DOMAIN commits THEN "commit"
    ELSE IF branch_file_exists(target) THEN "branch"
    ELSE "unknown"

\* How checkout resolves its target: the branch file is looked for first,
\* the commit file only when there is none.
resolve(target) ==
    IF branch_file_exists(target) THEN "branch"
    ELSE IF target \in DOMAIN commits THEN "commit"
    ELSE "unknown"

\* A checkout of a branch that also empties the staging index once HEAD is
\* written.
CheckoutBranchResetIndex(target) ==
    /\ resolve(target) = "branch"
    /\ Tick
    /\ out' = <<>>
    /\ UNCHANGED <<objects, commits, branches>>
    /\ IF ~branch_file_readable(target)
         THEN /\ last' = [op |-> "checkout", target |-> target,
                          result |-> "IsADirectoryError"]
              /\ UNCHANGED <<wt, head, index>>
         ELSE /\ head' = target
              /\ index' = Empty
              /\ IF branches[target] \notin DOMAIN commits
                   THEN /\ last' = [op |-> "checkout", target |-> target,
                                    result |-> "FileNotFoundError"]
                        /\ UNCHANGED wt
                   ELSE LET r == restore(commits[branches[target]].files, 1, wt)
                        IN /\ wt' = r.wt
                           /\ last' = [op |-> "checkout", target |-> target,
                                       result |-> IF r.ok THEN "switched"
                                                  ELSE "FileNotFoundError"]

\* checkout of a branch: HEAD is written, then the branch's commit is read
\* and its files are copied into the working tree.
CheckoutBranch(target) ==
    /\ resolve(target) = "branch"
    /\ Tick
    /\ out' = <<>>
    /\ UNCHANGED <<index, objects, commits, branches>>
    /\ IF ~branch_file_readable(target)
         THEN /\ last' = [op |-> "checkout", target |-> target,
                          result |-> "IsADirectoryError"]
              /\ UNCHANGED <<wt, head>>
         ELSE /\ head' = target
              /\ IF branches[target] \notin DOMAIN commits
                   THEN /\ last' = [op |-> "checkout", target |-> target,
                                    result |-> "FileNotFoundError"]
                        /\ UNCHANGED wt
                   ELSE LET r == restore(commits[branches[target]].files, 1, wt)
                        IN /\ wt' = r.wt
                           /\ last' = [op |-> "checkout", target |-> target,
                                       result |-> IF r.ok THEN "switched"
                                                  ELSE "FileNotFoundError"]

\* checkout of a commit hash: self.head = None, then save_head opens HEAD for
\* writing (which empties it) and f.write(None) raises TypeError; the process
\* ends there, before any file is copied.
CheckoutCommit(target) ==
    /\ resolve(target) = "commit"
    /\ Tick
    /\ head' = ""
    /\ last' = [op |-> "checkout", target |-> target, result |-> "TypeError"]
    /\ out' = <<>>
    /\ UNCHANGED <<wt, index, objects, commits, branches>>

\* checkout of a target that is neither: an error message and return.
CheckoutUnknown(target) ==
    /\ resolve(target) = "unknown"
    /\ Tick
    /\ last' = [op |-> "checkout", target |-> target, result |-> "unknown"]
    /\ out' = <<>>
    /\ UNCHANGED <<wt, repo>>

\* Repository.checkout(target)
Checkout(target) ==
    \/ CheckoutBranch(target)
    \/ CheckoutCommit(target)
    \/ CheckoutUnknown(target)

\* A branch() without its test for an existing branch file.
branch_outcome_no_exists_check(name) ==
    IF get_current_commit_raises THEN "IsADirectoryError"
    ELSE IF get_current_commit = None THEN "nocommits"
    ELSE "created"

\* How branch() ends: the name is taken, get_current_commit raises or returns
\* None, or the branch is created.
branch_outcome(name) ==
    IF branch_file_exists(name) THEN "exists"
    ELSE IF get_current_commit_raises THEN "IsADirectoryError"
    ELSE IF get_current_commit = None THEN "nocommits"
    ELSE "created"

\* A branch() that writes the current branch's file instead of the new one.
new_branch_wrong_file(name, current_commit) ==
    (load_head :> current_commit) @@ branches

\* The branch file branch() writes.
new_branch(name, current_commit) == (name :> current_commit) @@ branches

\* A branch() that also switches HEAD to the branch it creates.
BranchAndSwitch(name) ==
    /\ Tick
    /\ out' = <<>>
    /\ last' = [op |-> "branch", target |-> name,
                result |-> branch_outcome(name)]
    /\ UNCHANGED <<wt, index, objects, commits>>
    /\ IF branch_outcome(name) = "created"
         THEN /\ branches' = new_branch(name, get_current_commit)
              /\ head' = name
         ELSE UNCHANGED <<branches, head>>

\* Repository.branch(name)
Branch(name) ==
    /\ Tick
    /\ out' = <<>>
    /\ last' = [op |-> "branch", target |-> name,
                result |-> branch_outcome(name)]
    /\ UNCHANGED <<wt, index, objects, commits, head>>
    /\ IF branch_outcome(name) = "created"
         THEN branches' = new_branch(name, get_current_commit)
         ELSE UNCHANGED branches

----------------------------------------------------------------------------
(* Inputs *)

\* The path lists given to add.
AddArgs == {<<"f">>, <<"g">>, <<"f", "g">>, <<"g", "f">>}

\* Branch names a user types: plain names, or the hash of a stored commit.
BranchNames == {"master", "dev"} \cup DOMAIN commits

\* Checkout targets: the above and a name that is neither branch nor commit.
Targets == UserNames \cup DOMAIN commits

Next ==
    \/ \E p \in Paths, c \in Contents \cup {NoFile} : Edit(p, c)
    \/ \E files \in AddArgs : Add(files)
    \/ \E message \in Messages, timestamp \in Timestamps :
          Commit(message, timestamp)
    \/ Log
    \/ Status
    \/ \E target \in Targets : Checkout(target)
    \/ \E name \in BranchNames : Branch(name)

Spec == Init /\ [][Next]_vars

\* A commit file is deleted by hand in .myvcs/commits.
RemoveCommit(h) ==
    /\ Tick
    /\ commits' = [c \in DOMAIN commits \ {h} |-> commits[c]]
    /\ last' = [op |-> "rm", target |-> h, result |-> "ok"]
    /\ out' = <<>>
    /\ UNCHANGED <<wt, index, objects, branches, head>>

NextTamper ==
    \/ Next
    \/ \E h \in DOMAIN commits : RemoveCommit(h)

\* The commands, run on a repository whose commit files may be deleted by
\* hand between them.
SpecTamper == Init /\ [][NextTamper]_vars

----------------------------------------------------------------------------
(* Properties *)

\* The results that are uncaught Python exceptions: the command did not
\* complete.
Exceptions == {"TypeError", "IsADirectoryError", "FileNotFoundError"}

\* s is the history of commit h: h first, each next commit the parent of the
\* one before, every commit stored and listed once, the last one a root.
IsChainFrom(s, h) ==
    /\ Len(s) >= 1
    /\ s[1] = h
    /\ \A i \in 1..Len(s) : s[i] \in DOMAIN commits
    /\ \A i \in 1..(Len(s) - 1) : commits[s[i]].parent = s[i + 1]
    /\ commits[s[Len(s)]].parent = None
    /\ \A i, j \in 1..Len(s) : i # j => s[i] # s[j]

\* The files of stored commit c are in the working tree w with the content
\* of their blobs.
Restored(c, w) ==
    \A p \in DOMAIN commits[c].files : w[p] = objects[commits[c].files[p]]

\* C1: a commit run on an empty staging index stores no commit, moves no
\* branch, and leaves the index, HEAD, the object store and the working tree
\* as they were.
C1_EmptyCommitChangesNothing ==
    [][(last'.op = "commit" /\ DOMAIN index = {})
         => UNCHANGED <<wt, index, objects, commits, branches, head>>]_vars

\* A commit on an empty index has reported "nothing to commit" in a repository
\* that has commits and a current branch.
C1_Witness ==
    /\ last.op = "commit"
    /\ last.result = "nothing"
    /\ DOMAIN index = {}
    /\ head \in DOMAIN branches

\* C2: a commit run on a non-empty staging index stores a commit whose files
\* are the index and whose parent is the commit the current branch pointed
\* to (None if there was none), makes the current branch point at it and
\* empties the index.
C2_CommitStoresIndex ==
    [][(last'.op = "commit" /\ DOMAIN index # {})
         => /\ head \in DOMAIN branches'
            /\ branches'[head] \in DOMAIN commits'
            /\ commits'[branches'[head]].files = index
            /\ commits'[branches'[head]].parent =
                 (IF head \in DOMAIN branches THEN branches[head] ELSE None)
            /\ index' = Empty]_vars

\* C3: a checkout of a target that is no branch but is the hash of a stored
\* commit completes and leaves HEAD detached at that commit: HEAD names no
\* branch and the current commit is the target.
C3_CheckoutCommitDetaches ==
    [][(/\ last'.op = "checkout"
        /\ last'.target \notin DOMAIN branches
        /\ last'.target \in DOMAIN commits)
         => /\ last'.result \notin Exceptions
            /\ head' \notin DOMAIN branches'
            /\ ~get_current_commit_raises'
            /\ get_current_commit' = last'.target]_vars

\* C4: a log run right after a checkout by commit hash prints the history of
\* that commit (after H1 then H2 and checkout(H1): H1 and not H2); a log run
\* while a branch is current prints the history of the branch's commit.
C4_LogAfterCheckoutCommit ==
    [][(last'.op = "log")
         => /\ (/\ last.op = "checkout"
                /\ last.target \notin DOMAIN branches
                /\ last.target \in DOMAIN commits)
                  => IsChainFrom(out', last.target)
            /\ head \in DOMAIN branches
                  => IsChainFrom(out', branches[head])]_vars

\* C5: a log run right after the checkout of an existing branch prints the
\* history of the commit the branch points to: newest first, each commit
\* once, ending at the root commit.
C5_LogAfterCheckoutBranch ==
    [][(/\ last.op = "checkout"
        /\ last.target \in DOMAIN branches
        /\ last'.op = "log")
         => IsChainFrom(out', branches[last.target])]_vars

\* A log has printed two commits while a branch other than master, which only
\* a checkout of that branch makes current, is current.
C5_Witness ==
    /\ last.op = "log"
    /\ last.result = "printed"
    /\ head \in DOMAIN branches
    /\ head # "master"
    /\ Len(out) = 2

\* C6: after a checkout whose target resolves to a commit, by branch name or
\* by commit hash, every path of that commit's files has the content of its
\* blob in the working tree.
C6_CheckoutRestoresFiles ==
    [][(/\ last'.op = "checkout"
        /\ (last'.target \in DOMAIN branches \/ last'.target \in DOMAIN commits))
         => Restored(IF last'.target \in DOMAIN branches
                       THEN branches[last'.target]
                       ELSE last'.target,
                     wt')]_vars

\* C7: a checkout of a target that is neither a branch nor the hash of a
\* stored commit changes nothing.
C7_UnknownCheckoutChangesNothing ==
    [][(/\ last'.op = "checkout"
        /\ last'.target \notin DOMAIN branches
        /\ last'.target \notin DOMAIN commits)
         => UNCHANGED <<wt, index, objects, commits, branches, head>>]_vars

\* A checkout has reported an unknown target in a repository that has a
\* commit and a working-tree file differing from the committed one.
C7_Witness ==
    /\ last.op = "checkout"
    /\ last.result = "unknown"
    /\ last.target \notin DOMAIN branches
    /\ last.target \notin DOMAIN commits
    /\ head \in DOMAIN branches
    /\ ~Restored(branches[head], wt)

\* C8: a checkout of a target that is both a branch name and the hash of a
\* stored commit attaches HEAD to the branch and sets the working tree from
\* the commit the branch points to; the other paths are left alone.
C8_BranchBeforeCommit ==
    [][(/\ last'.op = "checkout"
        /\ last'.target \in DOMAIN branches
        /\ last'.target \in DOMAIN commits)
         => /\ head' = last'.target
            /\ Restored(branches[last'.target], wt')
            /\ \A p \in Paths \ DOMAIN commits[branches[last'.target]].files :
                  wt'[p] = wt[p]]_vars

\* A checkout has switched to a branch whose name is the hash of a commit
\* other than the one it points to.
C8_Witness ==
    /\ last.op = "checkout"
    /\ last.result = "switched"
    /\ last.target \in DOMAIN branches
    /\ last.target \in DOMAIN commits
    /\ branches[last.target] # last.target

\* C9: branch(name) changes nothing when name is already a branch or when
\* the current ref has no commit.
C9_RefusedBranchChangesNothing ==
    [][(/\ last'.op = "branch"
        /\ (last'.target \in DOMAIN branches \/ head \notin DOMAIN branches))
         => UNCHANGED <<wt, index, objects, commits, branches, head>>]_vars

\* branch(name) has refused a name that is a branch pointing at another commit
\* than the current one.
C9_Witness ==
    /\ last.op = "branch"
    /\ last.result = "exists"
    /\ head \in DOMAIN branches
    /\ last.target \in DOMAIN branches
    /\ branches[last.target] # branches[head]

\* C10: branch(name) with a new name and a current commit creates the branch
\* at the current commit and changes nothing else.
C10_BranchCreatesAtCurrent ==
    [][(/\ last'.op = "branch"
        /\ last'.target \notin DOMAIN branches
        /\ head \in DOMAIN branches)
         => /\ branches' = (last'.target :> branches[head]) @@ branches
            /\ UNCHANGED <<wt, index, objects, commits, head>>]_vars

\* branch(name) has created a branch while the index held staged files.
C10_Witness ==
    /\ last.op = "branch"
    /\ last.result = "created"
    /\ last.target \in DOMAIN branches
    /\ last.target # head
    /\ DOMAIN index # {}

\* The set of the elements of sequence s.
Range(s) == {s[i] : i \in DOMAIN s}

\* C11: status lists a working-tree file as modified exactly when its hash
\* differs from the one the current commit records for its path (a path the
\* commit does not have, or no current commit, counts as differing); what is
\* staged plays no part.
C11_StatusReportsModified ==
    [][(last'.op = "status")
         => /\ last'.result \notin Exceptions
            /\ Range(out') =
              {p \in Paths :
                 /\ wt[p] # NoFile
                 /\ \/ head \notin DOMAIN branches
                    \/ p \notin DOMAIN commits[branches[head]].files
                    \/ commits[branches[head]].files[p] # file_sha1(wt[p])}]_vars

\* C12: add stages every listed path that exists, before or after a listed
\* path that does not, with the hash of its content, and that content is in
\* the object store; every other index entry, of a path not listed or listed
\* and missing, is kept, and no other entry appears.
C12_AddStagesExistingPaths ==
    [][(last'.op = "add")
         => LET files == CHOOSE fs \in AddArgs : argv(fs, 1) = last'.target
                staged == {p \in Range(files) : wt[p] # NoFile}
            IN /\ \A p \in staged :
                    /\ p \in DOMAIN index'
                    /\ index'[p] = file_sha1(wt[p])
                    /\ index'[p] \in DOMAIN objects'
                    /\ objects'[index'[p]] = wt[p]
               /\ \A p \in Paths \ staged :
                    IF p \in DOMAIN index
                      THEN p \in DOMAIN index' /\ index'[p] = index[p]
                      ELSE p \notin DOMAIN index']_vars

\* add f g has run with f missing and g present: g is staged, and the entry
\* f had from before is still there.
C12_Witness ==
    /\ last.op = "add"
    /\ last.target = "f g"
    /\ wt["f"] = NoFile
    /\ wt["g"] # NoFile
    /\ DOMAIN index = {"f", "g"}
    /\ index["g"] = file_sha1(wt["g"])

\* C13: no command changes or removes a stored blob or a stored commit
\* record; every blob is stored under the hash of its content, so equal
\* content has one object; and an add of content that is all stored already
\* leaves the object store as it was.
C13_StoresAreWriteOnce ==
    [][/\ \A h \in DOMAIN objects :
            h \in DOMAIN objects' /\ objects'[h] = objects[h]
       /\ \A c \in DOMAIN commits :
            c \in DOMAIN commits' /\ commits'[c] = commits[c]
       /\ \A h \in DOMAIN objects' : h = file_sha1(objects'[h])
       /\ (/\ last'.op = "add"
           /\ \A p \in Paths :
                wt[p] # NoFile => \E h \in DOMAIN objects : objects[h] = wt[p])
             => objects' = objects]_vars

\* add has staged two paths of equal content, and the store holds one object.
C13_Witness ==
    /\ last.op = "add"
    /\ wt["f"] # NoFile
    /\ wt["g"] = wt["f"]
    /\ DOMAIN index = {"f", "g"}
    /\ index["f"] = index["g"]
    /\ Cardinality(DOMAIN objects) = 1
    /\ DOMAIN commits # {}

\* No file refers to a missing one: every branch names a stored commit, every
\* parent is None or a stored commit, and every hash in the index or in a
\* commit's files has an object.
Consistent(br, cm, idx, obj) ==
    /\ \A b \in DOMAIN br : br[b] \in DOMAIN cm
    /\ \A c \in DOMAIN cm :
         /\ cm[c].parent = None \/ cm[c].parent \in DOMAIN cm
         /\ \A p \in DOMAIN cm[c].files : cm[c].files[p] \in DOMAIN obj
    /\ \A p \in DOMAIN idx : idx[p] \in DOMAIN obj

\* C14: after every command, and after each of the writes of a commit, no
\* file of the repository refers to a missing commit or object, and no
\* command fails on a missing file.
C14_NoDanglingReference ==
    [][/\ Consistent(branches', commits', index', objects')
       /\ last'.result # "FileNotFoundError"
       /\ (last'.op = "commit" /\ last'.result = "committed")
            => \A message \in Messages, timestamp \in Timestamps :
                 commit_sha1(new_commit(message, timestamp)) = last'.target
                   => \A i \in DOMAIN commit_steps(message, timestamp) :
                        Consistent(commit_steps(message, timestamp)[i].branches,
                                   commit_steps(message, timestamp)[i].commits,
                                   commit_steps(message, timestamp)[i].index,
                                   objects)]_vars

\* A second commit has been made on a branch: its parent, its files' objects
\* and the branch's target are all stored.
C14_Witness ==
    /\ last.op = "commit"
    /\ last.result = "committed"
    /\ commits[last.target].parent # None
    /\ Cardinality(DOMAIN branches) = 2
    /\ Cardinality(DOMAIN objects) = 2

\* C15: HEAD changes only through checkout; add, commit, branch, log and
\* status leave the HEAD file exactly as it was.
C15_HeadChangesOnlyByCheckout ==
    [][/\ head' # head => last'.op = "checkout"
       /\ last'.op \in {"add", "commit", "branch", "log", "status"}
            => head' = head]_vars

\* A commit was made while HEAD names dev, reached by an earlier checkout,
\* and HEAD still names dev.
C15_Witness ==
    /\ last.op = "commit"
    /\ last.result = "committed"
    /\ head = "dev"

RECURSIVE ancestors(_, _)
\* The stored commits met from h along at most n parent links, h included.
ancestors(h, n) ==
    IF h = None \/ h \notin DOMAIN commits \/ n = 0 THEN {}
    ELSE {h} \cup ancestors(commits[h].parent, n - 1)

\* No stored commit is met again along the parent links that start at it.
NoCycle ==
    \A c \in DOMAIN commits :
        c \notin ancestors(commits[c].parent, Cardinality(DOMAIN commits))

\* C16: the parent links of the stored commits form no cycle, and a log run
\* while HEAD names a branch ends without error, having printed each stored
\* commit from the branch's commit along the parent links once, up to the
\* first commit with no parent or the first hash with no commit file, which is
\* not printed. This holds also when commit files have been deleted by hand.
C16_LogStopsAtRootOrMissing ==
    [][/\ NoCycle'
       /\ (last'.op = "log" /\ head \in DOMAIN branches)
            => /\ last'.result = "printed"
               /\ \A i \in 1..Len(out') : out'[i] \in DOMAIN commits
               /\ \A i, j \in 1..Len(out') : i # j => out'[i] # out'[j]
               /\ \A i \in 1..(Len(out') - 1) :
                     commits[out'[i]].parent = out'[i + 1]
               /\ IF out' = <<>>
                    THEN branches[head] \notin DOMAIN commits
                    ELSE /\ out'[1] = branches[head]
                         /\ \/ commits[out'[Len(out')]].parent = None
                            \/ commits[out'[Len(out')]].parent
                                 \notin DOMAIN commits]_vars

\* A log has printed a commit whose parent's file is missing and has stopped
\* there.
C16_Witness ==
    /\ last.op = "log"
    /\ last.result = "printed"
    /\ Len(out) >= 1
    /\ commits[out[Len(out)]].parent # None
    /\ commits[out[Len(out)]].parent \notin DOMAIN commits

\* C17: a commit moves only the branch HEAD names; every other branch points
\* after the commit at the commit it pointed at before, and no branch other
\* than HEAD's appears.
C17_CommitMovesOnlyCurrentBranch ==
    [][(last'.op = "commit")
         => /\ DOMAIN branches' \subseteq DOMAIN branches \cup {head}
            /\ \A b \in DOMAIN branches \ {head} :
                 /\ b \in DOMAIN branches'
                 /\ branches'[b] = branches[b]]_vars

\* After a checkout of dev a commit has moved dev, and master, current before
\* that checkout, still points at the parent of the new commit.
C17_Witness ==
    /\ last.op = "commit"
    /\ last.result = "committed"
    /\ head = "dev"
    /\ "master" \in DOMAIN branches
    /\ branches["dev"] = last.target
    /\ branches["master"] = commits[last.target].parent

\* C18: a checkout, of a branch or of a commit, leaves the staging index as
\* it was, and a commit run next after the checkout of a branch stores the
\* entries staged before that checkout as its files and becomes the commit
\* of the branch that was checked out.
C18_CheckoutKeepsIndex ==
    [][/\ (last'.op = "checkout") => index' = index
       /\ (/\ last.op = "checkout"
           /\ last.result = "switched"
           /\ DOMAIN index # {}
           /\ last'.op = "commit")
            => /\ last'.result = "committed"
               /\ commits'[last'.target].files = index
               /\ branches'[last.target] = last'.target
               /\ head' = last.target]_vars

\* A checkout has switched to dev while an entry was staged whose hash is not
\* the one dev's commit records for that path, and the entry is still staged.
C18_Witness ==
    /\ last.op = "checkout"
    /\ last.result = "switched"
    /\ last.target = "dev"
    /\ "f" \in DOMAIN index
    /\ "f" \in DOMAIN commits[branches["dev"]].files
    /\ index["f"] # commits[branches["dev"]].files["f"]

\* C19: a checkout changes no working-tree path other than the keys of the
\* files of the commit its target resolves to; a file at any other path is
\* neither deleted nor modified.
C19_CheckoutTouchesOnlyTargetPaths ==
    [][(last'.op = "checkout")
         => \A p \in Paths :
              wt'[p] # wt[p]
                => /\ last'.target \in DOMAIN branches
                   /\ branches[last'.target] \in DOMAIN commits
                   /\ p \in DOMAIN commits[branches[last'.target]].files]_vars

\* A checkout has switched from dev back to master, whose commit does not
\* record path g, and g, which dev's commit records, is still in the working
\* tree with the content dev's commit has for it.
C19_Witness ==
    /\ last.op = "checkout"
    /\ last.result = "switched"
    /\ last.target = "master"
    /\ "dev" \in DOMAIN branches
    /\ "g" \notin DOMAIN commits[branches["master"]].files
    /\ "g" \in DOMAIN commits[branches["dev"]].files
    /\ wt["g"] # NoFile
    /\ file_sha1(wt["g"]) = commits[branches["dev"]].files["g"]

\* C20: the index holds the paths added since the last commit, and a commit's
\* files are the index: a commit that succeeds stores exactly the staged
\* entries and empties the index, so a path of its parent's files that is not
\* staged is not in its files; an add stages no path other than those it is
\* given; no other command changes the index.
C20_CommitHoldsOnlyStagedPaths ==
    [][/\ (last'.op = "commit" /\ last'.result = "committed")
            => /\ commits'[last'.target].files = index
               /\ index' = Empty
               /\ commits'[last'.target].parent # None
                    => \A p \in DOMAIN commits[commits'[last'.target].parent].files :
                         p \notin DOMAIN index
                           => p \notin DOMAIN commits'[last'.target].files
       /\ (last'.op = "commit" /\ last'.result # "committed")
            => index' = index
       /\ (last'.op = "add")
            => \A p \in DOMAIN index' \ DOMAIN index :
                 \E fs \in AddArgs : /\ argv(fs, 1) = last'.target
                                     /\ p \in Range(fs)
       /\ (last'.op \notin {"add", "commit"}) => index' = index]_vars

\* A commit has been stored whose parent records path f while it does not:
\* f was not added again after the parent was committed.
C20_Witness ==
    /\ last.op = "commit"
    /\ last.result = "committed"
    /\ commits[last.target].parent \in DOMAIN commits
    /\ "f" \in DOMAIN commits[commits[last.target].parent].files
    /\ "f" \notin DOMAIN commits[last.target].files
    /\ wt["f"] # NoFile

====
